---- MODULE Spec2Model ----
(***************************************************************************)
(* A model of pystream/c_src/stream.c: the multi-threaded STREAM kernel    *)
(* runner (main, thread_function, the four kernels and validate).          *)
(*                                                                         *)
(* Array elements and the scalar are doubles in the source; the model uses *)
(* integer-valued data, on which the kernels' arithmetic is exact.  Time   *)
(* is counted in clock ticks (gettimeofday readings), elapsed times are    *)
(* differences of readings.                                                *)
(***************************************************************************)
EXTENDS Integers, Sequences, FiniteSets, TLC

\* ---------------------------------------------------------------- bounds
MaxThreads == 2      \* -n ranges over 0..MaxThreads
MaxLen     == 3      \* -s ranges over 0..MaxLen
MaxIter    == 2      \* -i ranges over 0..MaxIter
MaxClock   == 2      \* gettimeofday readings range over 0..MaxClock
MaxLoop    == 1      \* deadline-mode kernel calls a worker may make before the deadline
PartMaxThreads == 4  \* the partition alone: thread counts 1..PartMaxThreads,
PartMaxLen     == 6  \*   array lengths 1..PartMaxLen,
PartMaxIter    == 6  \*   iteration counts 1..PartMaxIter
AggMaxThreads  == 4  \* the byte count alone: thread counts 1..AggMaxThreads
KLen      == 2       \* the kernels alone: arrays of KLen elements,
KMaxCalls == 2       \*   up to KMaxCalls calls in a row

\* sizeof(STREAM_TYPE), STREAM_TYPE being double
ElementSize == 8

Threads == 0 .. (MaxThreads - 1)
Ops     == {"OP_COPY", "OP_SCALE", "OP_ADD", "OP_TRIAD"}
Scalars == {3}               \* -c; 3.0 is the default
Uninit  == {}                \* a malloc'ed table slot nobody has written yet; {v} once written
NoData  == [set |-> FALSE]   \* a thread_data element main has not filled in

VARIABLES
    \* the command line, as main's option variables hold it after getopt
    num_threads, array_size, num_iterations, operation, scalar,
    runtime_mode, runtime_seconds, silent_mode, use_cpuset,
    \* main
    mainpc, mi, allocated, thread_data,
    max_elapsed_time, total_bytes_moved, bandwidth,
    \* globals and shared state
    a, b, c, start_time, thread_completion_times, total_iterations_completed,
    \* workers: position, loop counter i, local elapsed_time, affinity outcome
    pc, iter, elapsed, affinity,
    \* the workers whose validation pass found a mismatch (kept for the record)
    validation_failed,
    \* kept for the record: the array indices each worker has read or written, the
    \* writes each table slot has had, and each worker's kernel calls begun at or
    \* after the deadline
    touched, table_writes, late,
    \* environment: the wall clock, the process
    now, proc, exit_status,
    \* state of the stand-alone checks of the pure parts (partition, byte count, kernels)
    h

optvars  == <<num_threads, array_size, num_iterations, operation, scalar,
              runtime_mode, runtime_seconds, silent_mode, use_cpuset>>
mainvars == <<mainpc, mi, allocated, thread_data,
              max_elapsed_time, total_bytes_moved, bandwidth>>
memvars  == <<a, b, c>>
histvars == <<touched, table_writes, late>>
wvars    == <<pc, iter, elapsed, affinity, validation_failed, histvars>>
progvars == <<optvars, mainvars, memvars, start_time, thread_completion_times,
              total_iterations_completed, wvars, now, proc, exit_status>>
vars     == <<optvars, mainvars, memvars, start_time, thread_completion_times,
              total_iterations_completed, wvars, now, proc, exit_status, h>>

\* ------------------------------------------------------------ the kernels
Mem == [a |-> a, b |-> b, c |-> c]

InRange(j, start, end) == start <= j /\ j < end

array_copy(m, start, end) ==
    [m EXCEPT !.c = [j \in DOMAIN m.c |->
        IF InRange(j, start, end) THEN m.a[j] ELSE m.c[j]]]

array_scale(m, start, end, s) ==
    [m EXCEPT !.b = [j \in DOMAIN m.b |->
        IF InRange(j, start, end) THEN s * m.c[j] ELSE m.b[j]]]

array_add(m, start, end) ==
    [m EXCEPT !.c = [j \in DOMAIN m.c |->
        IF InRange(j, start, end) THEN m.a[j] + m.b[j] ELSE m.c[j]]]

\* as array_triad, accumulating into a instead of overwriting it from b
array_triad_Accumulate(m, start, end, s) ==
    [m EXCEPT !.a = [j \in DOMAIN m.a |->
        IF InRange(j, start, end) THEN m.a[j] + s * m.c[j] ELSE m.a[j]]]

array_triad(m, start, end, s) ==
    [m EXCEPT !.a = [j \in DOMAIN m.a |->
        IF InRange(j, start, end) THEN m.b[j] + s * m.c[j] ELSE m.a[j]]]

\* the switch of thread_function's loops
KernelCall(op, m, start, end, s) ==
    CASE op = "OP_COPY"  -> array_copy(m, start, end)
      [] op = "OP_SCALE" -> array_scale(m, start, end, s)
      [] op = "OP_ADD"   -> array_add(m, start, end)
      [] op = "OP_TRIAD" -> array_triad(m, start, end, s)

Fabs(x) == IF x < 0 THEN -x ELSE x

\* epsilon is 1e-6: on integer-valued data fabs(d) > epsilon iff fabs(d) >= 1
ExceedsEpsilon(d) == Fabs(d) >= 1

\* the residual validate tests at index j
Residual(op, m, j, s) ==
    CASE op = "OP_COPY"  -> m.c[j] - m.a[j]
      [] op = "OP_SCALE" -> m.b[j] - s * m.c[j]
      [] op = "OP_ADD"   -> m.c[j] - (m.a[j] + m.b[j])
      [] op = "OP_TRIAD" -> m.a[j] - (m.b[j] + s * m.c[j])

\* the cases of the switches on the operation tag; any other tag takes the default
KnownOperation(op) == op \in Ops

\* validate reaches exit(EXIT_FAILURE): on a mismatch, or in the switch's default
ValidateFails(op, m, start, end, s) ==
    \/ ~KnownOperation(op)
    \/ \E j \in DOMAIN m.a :
          InRange(j, start, end) /\ ExceedsEpsilon(Residual(op, m, j, s))

\* the indices a kernel call on [start, end) reads and writes
KernelAccesses(start, end) == start .. (end - 1)

\* the indices validate reads: those of the range up to the first mismatch
ValidateAccesses(op, m, start, end, s) ==
    IF ~KnownOperation(op) THEN {}
    ELSE {j \in start .. (end - 1) :
             \A k \in start .. (j - 1) : ~ExceedsEpsilon(Residual(op, m, k, s))}

\* --------------------------------------------------------- the partition
ChunkSize(L, N) == L \div N
\* as StartIndex, every range but the first begun one chunk early
StartIndex_Overlap(i, N, L) == IF i = 0 THEN 0 ELSE (i - 1) * ChunkSize(L, N)
StartIndex(i, N, L) == i * ChunkSize(L, N)
\* as EndIndex, the last range not extended to the end of the array
EndIndex_NoRemainder(i, N, L) == (i + 1) * ChunkSize(L, N)
\* as NumIterations, the remainder given to one thread too many
NumIterations_OffByOne(i, N, I) == (I \div N) + (IF i <= I % N THEN 1 ELSE 0)
EndIndex(i, N, L) == IF i = N - 1 THEN L ELSE (i + 1) * ChunkSize(L, N)
NumIterations(i, N, I) == (I \div N) + (IF i < I % N THEN 1 ELSE 0)

\* --------------------------------------------------------- the aggregator
NumArraysAccessed(op) ==
    CASE op \in {"OP_COPY", "OP_SCALE"} -> 2
      [] op \in {"OP_ADD", "OP_TRIAD"}  -> 3
      [] OTHER -> 0

ActualIterations(rmode, counter, I) == IF rmode THEN counter ELSE I

\* as TotalBytesMoved, the iterations not divided by the thread count
TotalBytesMoved_NoDivision(actual, N, arrays, L) == actual * arrays * L * ElementSize

TotalBytesMoved(actual, N, arrays, L) == (actual \div N) * arrays * L * ElementSize

\* the reported quotient, in bytes per tick; a zero divisor gives the IEEE results
Bandwidth(bytes, t) ==
    IF t = 0 THEN (IF bytes = 0 THEN "nan" ELSE "inf") ELSE bytes \div t

\* ------------------------------------------------------------- the process
\* exit(status), called by main or by a worker.  The process is torn down in a
\* later step; until then the other threads keep running.  A second call of exit
\* while one is in progress is undefined: either status may be the one reported.
ExitCall(status) ==
    /\ proc' = "exiting"
    /\ exit_status' = IF proc = "running" THEN {status} ELSE {status} \cup exit_status

Alive == proc # "terminated"

WorkerIds == {w \in Threads : w < num_threads}

\* ------------------------------------------------------------------- Init
InitWith(tags) ==
    /\ num_threads \in 0 .. MaxThreads
    /\ array_size \in 0 .. MaxLen
    /\ num_iterations \in 0 .. MaxIter
    /\ operation \in tags
    /\ scalar \in Scalars
    /\ runtime_mode \in BOOLEAN
    /\ runtime_seconds \in (IF runtime_mode THEN 0 .. MaxClock ELSE {0})
    /\ silent_mode \in BOOLEAN
    /\ use_cpuset \in BOOLEAN
    /\ mainpc = "getopt"
    /\ mi = 0
    /\ allocated = FALSE
    /\ thread_data = [w \in Threads |-> NoData]
    /\ max_elapsed_time = 0
    /\ total_bytes_moved = 0
    /\ bandwidth = "none"
    /\ a = << >> /\ b = << >> /\ c = << >>
    /\ start_time = 0
    /\ thread_completion_times = << >>
    /\ total_iterations_completed = 0
    /\ pc = [w \in Threads |-> "none"]
    /\ iter = [w \in Threads |-> 0]
    /\ elapsed = [w \in Threads |-> 0]
    /\ affinity = [w \in Threads |-> "none"]
    /\ validation_failed = {}
    /\ touched = [w \in Threads |-> {}]
    /\ table_writes = [w \in Threads |-> [n |-> 0, by |-> {}]]
    /\ late = [w \in Threads |-> 0]
    /\ now = 0
    /\ proc = "running"
    /\ exit_status = {}
    /\ h = [kind |-> "none"]

\* main leaves the option loop with one of the four tags in operation
Init == InitWith(Ops)

\* ------------------------------------------------------------------- main
\* the -r case of the option loop: a non-positive runtime is rejected at once
RuntimeOptionOk(rmode, secs) == rmode => secs > 0

M_Getopt ==
    /\ Alive /\ mainpc = "getopt"
    /\ IF RuntimeOptionOk(runtime_mode, runtime_seconds)
         THEN mainpc' = "check" /\ UNCHANGED <<proc, exit_status>>
         ELSE mainpc' = "exit" /\ ExitCall("EXIT_FAILURE")
    /\ UNCHANGED <<optvars, mi, allocated, thread_data, max_elapsed_time,
                   total_bytes_moved, bandwidth, memvars, start_time,
                   thread_completion_times, total_iterations_completed, wvars, now, h>>

\* as ParametersOk, the iteration count left unchecked
ParametersOk_NoIterationCheck(N, L, I) == ~(N < 1) /\ ~(L < 1)

\* "Check parameters"
ParametersOk(N, L, I) == ~(N < 1) /\ ~(L < 1) /\ ~(I < 1)

M_Check ==
    /\ Alive /\ mainpc = "check"
    /\ IF ParametersOk(num_threads, array_size, num_iterations)
         THEN mainpc' = "alloc" /\ UNCHANGED <<proc, exit_status>>
         ELSE mainpc' = "exit" /\ ExitCall("EXIT_FAILURE")
    /\ UNCHANGED <<optvars, mi, allocated, thread_data, max_elapsed_time,
                   total_bytes_moved, bandwidth, memvars, start_time,
                   thread_completion_times, total_iterations_completed, wvars, now, h>>

\* the arrays, the completion time table and the thread structures are allocated,
\* the arrays initialised, and the start time is taken; any malloc may fail
M_Alloc ==
    /\ Alive /\ mainpc = "alloc"
    /\ \/ /\ allocated' = TRUE
          /\ a' = [j \in 0 .. (array_size - 1) |-> 1]
          /\ b' = [j \in 0 .. (array_size - 1) |-> 2]
          /\ c' = [j \in 0 .. (array_size - 1) |-> 0]
          /\ thread_completion_times' = [w \in WorkerIds |-> Uninit]
          /\ total_iterations_completed' = 0
          /\ start_time' = now
          /\ mi' = 0
          /\ mainpc' = "create"
          /\ UNCHANGED <<proc, exit_status>>
       \/ /\ mainpc' = "exit"
          /\ ExitCall("EXIT_FAILURE")
          /\ UNCHANGED <<allocated, memvars, thread_completion_times,
                         total_iterations_completed, start_time, mi>>
    /\ UNCHANGED <<optvars, thread_data, max_elapsed_time, total_bytes_moved,
                   bandwidth, wvars, now, h>>

\* what the creation loop writes into thread_data[i]
Descriptor(i) ==
    [set |-> TRUE,
     thread_id |-> i,
     start_index |-> StartIndex(i, num_threads, array_size),
     end_index |-> EndIndex(i, num_threads, array_size),
     num_iterations |-> NumIterations(i, num_threads, num_iterations),
     operation |-> operation,
     scalar |-> scalar,
     runtime_mode |-> runtime_mode,
     runtime_seconds |-> runtime_seconds,
     use_cpuset |-> use_cpuset]

\* one pass of the creation loop: fill thread_data[i], then pthread_create, which
\* may fail; after the last pass the join loop begins
M_Create ==
    /\ Alive /\ mainpc = "create" /\ mi < num_threads
    /\ thread_data' = [thread_data EXCEPT ![mi] = Descriptor(mi)]
    /\ \/ /\ pc' = [pc EXCEPT ![mi] = "created"]
          /\ IF mi + 1 < num_threads
               THEN mi' = mi + 1 /\ UNCHANGED mainpc
               ELSE mi' = 0 /\ mainpc' = "join"
          /\ UNCHANGED <<proc, exit_status>>
       \/ /\ mainpc' = "exit"
          /\ ExitCall("EXIT_FAILURE")
          /\ UNCHANGED <<pc, mi>>
    /\ UNCHANGED <<optvars, allocated, max_elapsed_time, total_bytes_moved, bandwidth,
                   memvars, start_time, thread_completion_times,
                   total_iterations_completed, iter, elapsed, affinity,
                   validation_failed, histvars, now, h>>

\* as JoinReturns, the thread not waited for
JoinReturns_NoWait(w) == TRUE

\* pthread_join(threads[w]) returns: thread w has returned from thread_function
JoinReturns(w) == pc[w] = "returned"

\* one pass of the join loop: pthread_join returns once thread mi has returned;
\* after the last pass main goes on to the results
M_Join ==
    /\ Alive /\ mainpc = "join" /\ mi < num_threads
    /\ JoinReturns(mi)
    /\ IF mi + 1 < num_threads
         THEN mi' = mi + 1 /\ UNCHANGED mainpc
         ELSE mi' = mi + 1 /\ mainpc' = "aggregate"
    /\ UNCHANGED <<optvars, allocated, thread_data, max_elapsed_time, total_bytes_moved,
                   bandwidth, memvars, start_time, thread_completion_times,
                   total_iterations_completed, wvars, now, proc, exit_status, h>>

\* the values a read of a table slot can give: an unwritten slot holds anything
SlotValues(v) == IF v = Uninit THEN 0 .. MaxClock ELSE v

RECURSIVE MaxElapsedFrom(_, _, _, _)
MaxElapsedFrom(t, i, N, acc) ==
    IF i >= N THEN acc
    ELSE MaxElapsedFrom(t, i + 1, N, IF t[i] > acc THEN t[i] ELSE acc)

\* as MaxElapsedTime, the last thread's time taken for the maximum
MaxElapsedTime_Last(t, N) == t[N - 1]

\* "Calculate total elapsed time"
MaxElapsedTime(t, N) == MaxElapsedFrom(t, 0, N, 0)

M_Aggregate ==
    /\ Alive /\ mainpc = "aggregate"
    /\ \E t \in [WorkerIds -> 0 .. MaxClock] :
          /\ \A w \in WorkerIds : t[w] \in SlotValues(thread_completion_times[w])
          /\ max_elapsed_time' = MaxElapsedTime(t, num_threads)
    /\ total_bytes_moved' =
          TotalBytesMoved(ActualIterations(runtime_mode, total_iterations_completed,
                                           num_iterations),
                          num_threads, NumArraysAccessed(operation), array_size)
    /\ mainpc' = "report"
    /\ UNCHANGED <<optvars, mi, allocated, thread_data, bandwidth, memvars, start_time,
                   thread_completion_times, total_iterations_completed, wvars, now,
                   proc, exit_status, h>>

\* the report, unless silent, then the clean-up and return 0
M_Report ==
    /\ Alive /\ mainpc = "report"
    /\ bandwidth' = IF silent_mode THEN "none"
                    ELSE Bandwidth(total_bytes_moved, max_elapsed_time)
    /\ allocated' = FALSE
    /\ mainpc' = "exit"
    /\ ExitCall("EXIT_SUCCESS")
    /\ UNCHANGED <<optvars, mi, thread_data, max_elapsed_time, total_bytes_moved,
                   memvars, start_time, thread_completion_times,
                   total_iterations_completed, wvars, now, h>>

\* ------------------------------------------------------- thread_function
D(w) == thread_data[w]

Running(w) == Alive /\ w \in WorkerIds

\* as OnAffinity, a failed pthread_setaffinity_np ending the process
OnAffinity_FatalOnFailure(r) == IF r = "failed" THEN "exit" ELSE "continue"

\* what follows pthread_setaffinity_np: a failure is reported and the thread goes on
OnAffinity(r) == "continue"

\* as LoopContinues, one pass too many
LoopContinues_OneMore(i, n) == i <= n

\* the fixed-mode for loop's test, i < data->num_iterations
LoopContinues(i, n) == i < n

\* pthread_setaffinity_np, when requested, succeeds or fails.  Then the mode is
\* chosen and, in fixed mode, i set to 0 and the for loop's first test made.
T_Bind(w) ==
    /\ Running(w) /\ pc[w] = "created"
    /\ \E r \in (IF D(w).use_cpuset THEN {"bound", "failed"} ELSE {"none"}) :
          /\ affinity' = [affinity EXCEPT ![w] = r]
          /\ IF OnAffinity(r) = "exit"
               THEN /\ pc' = [pc EXCEPT ![w] = "exited"]
                    /\ ExitCall("EXIT_FAILURE")
               ELSE /\ pc' = [pc EXCEPT ![w] =
                                IF D(w).runtime_mode \/ LoopContinues(0, D(w).num_iterations)
                                  THEN "kernel" ELSE "record"]
                    /\ UNCHANGED <<proc, exit_status>>
    /\ iter' = [iter EXCEPT ![w] = 0]
    /\ UNCHANGED <<optvars, mainvars, memvars, start_time, thread_completion_times,
                   total_iterations_completed, elapsed, validation_failed, histvars,
                   now, h>>

\* one pass of the loop up to i++: the switch calls the kernel over the worker's
\* range, or in its default reports the tag and returns from thread_function; in
\* fixed mode the for loop's test follows.  (In deadline mode a worker that has
\* made MaxLoop calls makes one more only once the clock has reached the deadline:
\* this bounds the model.)
T_Kernel(w) ==
    /\ Running(w) /\ pc[w] = "kernel"
    /\ D(w).runtime_mode =>
          \/ iter[w] < MaxLoop
          \/ now - start_time >= D(w).runtime_seconds /\ iter[w] <= MaxLoop
    /\ IF KnownOperation(D(w).operation)
         THEN /\ LET m == KernelCall(D(w).operation, Mem, D(w).start_index,
                                     D(w).end_index, D(w).scalar)
                 IN  a' = m.a /\ b' = m.b /\ c' = m.c
              /\ iter' = [iter EXCEPT ![w] = iter[w] + 1]
              /\ touched' = [touched EXCEPT ![w] =
                                @ \cup KernelAccesses(D(w).start_index, D(w).end_index)]
              /\ late' = [late EXCEPT ![w] =
                             IF D(w).runtime_mode /\ now - start_time >= D(w).runtime_seconds
                               THEN @ + 1 ELSE @]
              /\ pc' = [pc EXCEPT ![w] =
                           IF D(w).runtime_mode THEN "gettime"
                           ELSE IF LoopContinues(iter[w] + 1, D(w).num_iterations)
                                  THEN "kernel" ELSE "record"]
         ELSE /\ pc' = [pc EXCEPT ![w] = "returned"]
              /\ UNCHANGED <<memvars, iter, touched, late>>
    /\ UNCHANGED <<optvars, mainvars, start_time, thread_completion_times,
                   total_iterations_completed, elapsed, affinity, validation_failed,
                   table_writes, now, proc, exit_status, h>>

\* elapsed time of a gettimeofday reading
ElapsedSince(t, start) == t - start

\* deadline mode: "Check if runtime is reached", the clock reading
T_GetTime(w) ==
    /\ Running(w) /\ pc[w] = "gettime"
    /\ elapsed' = [elapsed EXCEPT ![w] = ElapsedSince(now, start_time)]
    /\ pc' = [pc EXCEPT ![w] = "count"]
    /\ UNCHANGED <<optvars, mainvars, memvars, start_time, thread_completion_times,
                   total_iterations_completed, iter, affinity, validation_failed,
                   histvars, now, proc, exit_status, h>>

\* as DeadlineReached, the loop left after its first pass whatever the clock says
DeadlineReached_Always(e, secs) == TRUE

\* as DeadlineReached, the loop without an exit
DeadlineReached_Never(e, secs) == FALSE

\* as DeadlineReached, the loop going on when the reading equals the duration
DeadlineReached_Strict(e, secs) == e > secs

\* the loop's exit test
DeadlineReached(e, secs) == e >= secs

\* as CounterAfterPass, the thread's own pass count stored over the shared counter
CounterAfterPass_StoreOwn(counter, i) == i

\* the shared counter after a pass's __sync_fetch_and_add(data->total_iterations, 1),
\* one atomic read-modify-write (i is the thread's own pass count, not used by it)
CounterAfterPass(counter, i) == counter + 1

\* deadline mode: the atomic increment of the shared counter, then the exit test
T_Count(w) ==
    /\ Running(w) /\ pc[w] = "count"
    /\ total_iterations_completed' = CounterAfterPass(total_iterations_completed, iter[w])
    /\ pc' = [pc EXCEPT ![w] =
                 IF DeadlineReached(elapsed[w], D(w).runtime_seconds)
                   THEN "record" ELSE "kernel"]
    /\ UNCHANGED <<optvars, mainvars, memvars, start_time, thread_completion_times,
                   iter, elapsed, affinity, validation_failed, histvars, now, proc,
                   exit_status, h>>

\* as SlotOf, every thread writing the first slot
SlotOf_First(d) == 0

\* the table slot a thread writes: thread_completion_times[data->thread_id]
SlotOf(d) == d.thread_id

\* "Record completion time"
T_Record(w) ==
    /\ Running(w) /\ pc[w] = "record"
    /\ thread_completion_times' =
          [thread_completion_times EXCEPT ![SlotOf(D(w))] = {ElapsedSince(now, start_time)}]
    /\ table_writes' = [table_writes EXCEPT ![SlotOf(D(w))] =
                           [n |-> @.n + 1, by |-> @.by \cup {w}]]
    /\ pc' = [pc EXCEPT ![w] = "validate"]
    /\ UNCHANGED <<optvars, mainvars, memvars, start_time, total_iterations_completed,
                   iter, elapsed, affinity, validation_failed, touched, late, now, proc,
                   exit_status, h>>

\* as OnValidation, a mismatch only ending the pass
OnValidation_AlwaysReturn(fails) == "return"

\* what validate does on its verdict: exit the process, or return to thread_function
OnValidation(fails) == IF fails THEN "exit" ELSE "return"

\* "Validation pass", then return(NULL)
T_Validate(w) ==
    /\ Running(w) /\ pc[w] = "validate"
    /\ LET fails == ValidateFails(D(w).operation, Mem, D(w).start_index,
                                  D(w).end_index, D(w).scalar)
       IN  /\ validation_failed' = IF fails THEN validation_failed \cup {w}
                                   ELSE validation_failed
           /\ IF OnValidation(fails) = "exit"
                THEN /\ pc' = [pc EXCEPT ![w] = "exited"]
                     /\ ExitCall("EXIT_FAILURE")
                ELSE /\ pc' = [pc EXCEPT ![w] = "returned"]
                     /\ UNCHANGED <<proc, exit_status>>
    /\ touched' = [touched EXCEPT ![w] =
                      @ \cup ValidateAccesses(D(w).operation, Mem, D(w).start_index,
                                              D(w).end_index, D(w).scalar)]
    /\ UNCHANGED <<optvars, mainvars, memvars, start_time, thread_completion_times,
                   total_iterations_completed, iter, elapsed, affinity, table_writes,
                   late, now, h>>

\* ------------------------------------------------------------ environment
\* the wall clock advances, never going back.  Only the readings taken between
\* main's start_time and the last worker's completion time are used, so the clock
\* is left alone outside the creation and join loops.
Tick ==
    /\ proc = "running" /\ mainpc \in {"create", "join"}
    /\ now < MaxClock
    /\ now' = now + 1
    /\ UNCHANGED <<optvars, mainvars, memvars, start_time, thread_completion_times,
                   total_iterations_completed, wvars, proc, exit_status, h>>

\* the process started by exit() ends, with the status exit was given
Terminate ==
    /\ proc = "exiting"
    /\ proc' = "terminated"
    /\ \E st \in exit_status : exit_status' = {st}
    /\ UNCHANGED <<optvars, mainvars, memvars, start_time, thread_completion_times,
                   total_iterations_completed, wvars, now, h>>

Next ==
    \/ M_Getopt \/ M_Check \/ M_Alloc \/ M_Create \/ M_Join \/ M_Aggregate \/ M_Report
    \/ \E w \in Threads :
          \/ T_Bind(w) \/ T_Kernel(w) \/ T_GetTime(w) \/ T_Count(w)
          \/ T_Record(w) \/ T_Validate(w)
    \/ Tick \/ Terminate

Spec == Init /\ [][Next]_vars

\* thread_function and validate given any tag an operation_t can hold: the four
\* operations and one more value
InvalidOp == "OP_INVALID"

TagInit == InitWith(Ops \cup {InvalidOp})

SpecTag == TagInit /\ [][Next]_vars

\* the scheduler runs every thread that can run, the clock advances and a process
\* that has called exit ends
MainStep ==
    M_Getopt \/ M_Check \/ M_Alloc \/ M_Create \/ M_Join \/ M_Aggregate \/ M_Report

WorkerStep(w) ==
    T_Bind(w) \/ T_Kernel(w) \/ T_GetTime(w) \/ T_Count(w) \/ T_Record(w) \/ T_Validate(w)

Fairness ==
    /\ WF_vars(MainStep)
    /\ \A w \in Threads : WF_vars(WorkerStep(w))
    /\ WF_vars(Tick)
    /\ WF_vars(Terminate)

\* the fair runs: those of Spec for one operation and without the report's output,
\* neither of which any loop's exit depends on
FairInit == Init /\ silent_mode /\ operation = "OP_TRIAD"

SpecFair == FairInit /\ [][Next]_vars /\ Fairness

\* ---------------------------------------------------------------------------
\* The pure parts on their own.  In these specifications the program is not
\* running (Idle) and only h changes.
Idle ==
    /\ num_threads = 0 /\ array_size = 0 /\ num_iterations = 0
    /\ operation = "OP_COPY" /\ scalar = 3
    /\ runtime_mode = FALSE /\ runtime_seconds = 0
    /\ silent_mode = FALSE /\ use_cpuset = FALSE
    /\ mainpc = "off" /\ mi = 0 /\ allocated = FALSE
    /\ thread_data = [w \in Threads |-> NoData]
    /\ max_elapsed_time = 0 /\ total_bytes_moved = 0 /\ bandwidth = "none"
    /\ a = << >> /\ b = << >> /\ c = << >>
    /\ start_time = 0 /\ thread_completion_times = << >>
    /\ total_iterations_completed = 0
    /\ pc = [w \in Threads |-> "none"]
    /\ iter = [w \in Threads |-> 0]
    /\ elapsed = [w \in Threads |-> 0]
    /\ affinity = [w \in Threads |-> "none"]
    /\ validation_failed = {}
    /\ touched = [w \in Threads |-> {}]
    /\ table_writes = [w \in Threads |-> [n |-> 0, by |-> {}]]
    /\ late = [w \in Threads |-> 0]
    /\ now = 0 /\ proc = "running" /\ exit_status = {}

\* --- the partition: main's creation loop, the descriptors' ranges and counts only
PartInit ==
    /\ Idle
    /\ \E N \in 1 .. PartMaxThreads, L \in 1 .. PartMaxLen, I \in 1 .. PartMaxIter :
          h = [kind |-> "part", N |-> N, L |-> L, I |-> I, i |-> 0, data |-> << >>]

\* one pass of the creation loop: the next descriptor's start_index, end_index
\* and num_iterations
PartAssign ==
    /\ h.kind = "part" /\ h.i < h.N
    /\ h' = [h EXCEPT !.i = h.i + 1,
                      !.data = Append(h.data,
                                 [start_index |-> StartIndex(h.i, h.N, h.L),
                                  end_index |-> EndIndex(h.i, h.N, h.L),
                                  num_iterations |-> NumIterations(h.i, h.N, h.I)])]
    /\ UNCHANGED progvars

PartNext == PartAssign

SpecPart == PartInit /\ [][PartNext]_vars

\* --- the byte count: main's "Calculate total bytes moved"
AggLens  == {1, 10, 1000}
AggIters == {0, 1, 7, 100}

AggInit ==
    /\ Idle
    /\ \E op \in Ops, N \in 1 .. AggMaxThreads, L \in AggLens, I \in AggIters \ {0},
          rm \in BOOLEAN, cnt \in AggIters :
          h = [kind |-> "agg", operation |-> op, num_threads |-> N, array_size |-> L,
               num_iterations |-> I, runtime_mode |-> rm,
               total_iterations_completed |-> IF rm THEN cnt ELSE 0,
               computed |-> FALSE, total_bytes_moved |-> 0]

AggCompute ==
    /\ h.kind = "agg" /\ ~h.computed
    /\ h' = [h EXCEPT !.computed = TRUE, !.total_bytes_moved =
                TotalBytesMoved(ActualIterations(h.runtime_mode,
                                                 h.total_iterations_completed,
                                                 h.num_iterations),
                                h.num_threads, NumArraysAccessed(h.operation),
                                h.array_size)]
    /\ UNCHANGED progvars

AggNext == AggCompute

SpecAgg == AggInit /\ [][AggNext]_vars

\* --- the kernels and validate: any contents, any range, repeated calls
KVals    == {0, 1, 2}
KScalars == {3}
KArrays  == [0 .. (KLen - 1) -> KVals]

KernelInit ==
    /\ Idle
    /\ \E ma \in KArrays, mb \in KArrays, mc \in KArrays, op \in Ops, s \in KScalars,
          st \in 0 .. KLen, en \in 0 .. KLen :
          /\ st <= en
          /\ h = [kind |-> "kernel", m0 |-> [a |-> ma, b |-> mb, c |-> mc],
                  m |-> [a |-> ma, b |-> mb, c |-> mc],
                  operation |-> op, scalar |-> s, start |-> st, end |-> en,
                  calls |-> 0]

\* one more kernel call on the range, as one pass of thread_function's loop makes it
KernelStep ==
    /\ h.kind = "kernel" /\ h.calls < KMaxCalls
    /\ h' = [h EXCEPT !.m = KernelCall(h.operation, h.m, h.start, h.end, h.scalar),
                      !.calls = h.calls + 1]
    /\ UNCHANGED progvars

KernelNext == KernelStep

SpecKernel == KernelInit /\ [][KernelNext]_vars

\* ===========================================================================
\* The claims
\* ===========================================================================
PartDone == h.kind = "part" /\ h.i = h.N

\* the indices of range k of the descriptors written so far
RangeOf(k) == {x \in 0 .. (h.L - 1) : h.data[k].start_index <= x /\ x < h.data[k].end_index}

\* C1: for every thread count N >= 1 and array length L >= 1, the ranges
\* [start_index, end_index) given to workers 0..N-1 are well formed and inside
\* [0, L), each begins where the previous one ends (the first at 0), no index lies
\* in two of them, and once all N are assigned every index of [0, L) lies in exactly
\* one; worker i < N-1 has [i*(L/N), (i+1)*(L/N)) and worker N-1 has [(N-1)*(L/N), L).
C1_PartitionCoversExactly ==
    h.kind = "part" =>
      /\ \A k \in 1 .. h.i :
            /\ 0 <= h.data[k].start_index
            /\ h.data[k].start_index <= h.data[k].end_index
            /\ h.data[k].end_index <= h.L
            /\ h.data[k].start_index = (IF k = 1 THEN 0 ELSE h.data[k - 1].end_index)
            /\ h.data[k].start_index = (k - 1) * (h.L \div h.N)
            /\ h.data[k].end_index =
                  (IF k = h.N THEN h.L ELSE k * (h.L \div h.N))
      /\ \A j, k \in 1 .. h.i : j # k => RangeOf(j) \cap RangeOf(k) = {}
      /\ PartDone =>
            \A x \in 0 .. (h.L - 1) : Cardinality({k \in 1 .. h.N : x \in RangeOf(k)}) = 1

\* all ranges assigned, with more threads than elements in one run and a length the
\* thread count does not divide in another
C1_Witness ==
    /\ PartDone /\ h.N >= 2
    /\ h.N > h.L \/ (h.L % h.N # 0 /\ h.L > h.N)

RECURSIVE SumIterations(_, _)
SumIterations(d, k) == IF k = 0 THEN 0 ELSE d[k].num_iterations + SumIterations(d, k - 1)

\* C2: for every thread count N >= 1 and total iteration count I >= 1, the workers'
\* iteration counts sum to I, no two differ by more than 1, and exactly the workers
\* with id < I mod N get floor(I/N)+1, the others floor(I/N).
C2_IterationsSplitEvenly ==
    h.kind = "part" =>
      /\ \A k \in 1 .. h.i :
            h.data[k].num_iterations =
               (IF k - 1 < h.I % h.N THEN (h.I \div h.N) + 1 ELSE h.I \div h.N)
      /\ \A j, k \in 1 .. h.i :
            h.data[j].num_iterations - h.data[k].num_iterations \in {-1, 0, 1}
      /\ PartDone => SumIterations(h.data, h.N) = h.I

\* all counts assigned, with a remainder to distribute
C2_Witness ==
    /\ PartDone /\ h.N >= 2 /\ h.I % h.N # 0
    /\ h.data[1].num_iterations = h.data[h.N].num_iterations + 1

\* the kernel's defining equation at index j of memory m
Equation(op, m, j, s) ==
    CASE op = "OP_COPY"  -> m.c[j] = m.a[j]
      [] op = "OP_SCALE" -> m.b[j] = s * m.c[j]
      [] op = "OP_ADD"   -> m.c[j] = m.a[j] + m.b[j]
      [] op = "OP_TRIAD" -> m.a[j] = m.b[j] + s * m.c[j]

AllReturned == \A w \in WorkerIds : pc[w] = "returned"

\* main has the run's figures: it is about to report them, or has and returned 0
Aggregated ==
    \/ mainpc = "report"
    \/ mainpc = "exit" /\ "EXIT_SUCCESS" \in exit_status

\* C3: in fixed-iteration mode, for every thread count N >= 1 and total iteration
\* count I >= 1, no worker's validation fails, and once the workers have returned
\* the operation's defining equation holds at every index of the arrays (as for
\* scale, scalar 3, 2 threads, 1 iteration in all).
C3_FixedModeValidates ==
    (~runtime_mode /\ allocated) =>
      /\ validation_failed = {}
      /\ (mainpc = "join" /\ AllReturned) =>
            \A j \in DOMAIN a : Equation(operation, Mem, j, scalar)

\* C4: for each of the four operations and any array contents, once the kernel has
\* been applied k >= 1 times to a range, the operation's defining equation holds at
\* every index of the range on the current contents, and validate on that range
\* returns instead of exiting.
C4_KernelEstablishesEquation ==
    (h.kind = "kernel" /\ h.calls >= 1) =>
      /\ \A j \in 0 .. (KLen - 1) :
            InRange(j, h.start, h.end) => Equation(h.operation, h.m, j, h.scalar)
      /\ OnValidation(ValidateFails(h.operation, h.m, h.start, h.end, h.scalar)) = "return"

\* copy applied once to the whole of A=1, B=2, C=0: C has become equal to A
C4_Witness ==
    /\ h.kind = "kernel" /\ h.calls = 1 /\ h.operation = "OP_COPY"
    /\ h.start = 0 /\ h.end = KLen
    /\ \A j \in 0 .. (KLen - 1) : h.m0.a[j] = 1 /\ h.m0.b[j] = 2 /\ h.m0.c[j] = 0
    /\ h.m.c = h.m.a /\ h.m.c # h.m0.c

\* C5: in deadline mode (duration D > 0, N >= 1 threads, clock never going back),
\* when main has aggregated, the elapsed time it computed is >= D and the
\* total-iterations counter is > 0.
C5_DeadlineElapsedAndCount ==
    (runtime_mode /\ Aggregated) =>
      /\ max_elapsed_time >= runtime_seconds
      /\ total_iterations_completed > 0

\* a two-thread deadline run aggregated, the slowest worker having finished right
\* at the deadline
C5_Witness ==
    /\ runtime_mode /\ mainpc = "report" /\ num_threads = 2
    /\ max_elapsed_time = runtime_seconds
    /\ total_iterations_completed >= 2

AggCase ==
    /\ h.kind = "agg" /\ h.computed /\ ~h.runtime_mode
    /\ h.operation = "OP_COPY" /\ h.array_size = 1000 /\ h.num_iterations = 100

\* C6 as stated: copy, array length 1000, 8-byte elements, 100 total iterations:
\* the computed total bytes moved is 1,600,000 for any thread count.
C6_BytesForAnyThreadCount == AggCase => h.total_bytes_moved = 1600000

\* C6: copy, array length 1000, 8-byte elements, 100 total iterations, fixed mode:
\* the computed total bytes moved is floor(100/N) * 2 * 1000 * 8, which is
\* 1,600,000 exactly when N = 1 and at most 800,000 for N >= 2.
C6_BytesDividedByThreads ==
    AggCase =>
      /\ h.total_bytes_moved = (100 \div h.num_threads) * 2 * 1000 * 8
      /\ h.total_bytes_moved = 1600000 <=> h.num_threads = 1
      /\ h.num_threads >= 2 => h.total_bytes_moved <= 800000

\* the case computed for three threads: 33 * 16000 bytes
C6_Witness == AggCase /\ h.num_threads = 3 /\ h.total_bytes_moved = 528000

ArraysTouched(op) == IF op \in {"OP_COPY", "OP_SCALE"} THEN 2 ELSE 3

\* C7 as stated: in deadline mode the total bytes moved is
\* counter * arrays_touched * array_length * element_size, the counter not divided
\* by the thread count.
C7_BytesFromRawCounter ==
    (runtime_mode /\ Aggregated) =>
      total_bytes_moved =
         total_iterations_completed * ArraysTouched(operation) * array_size * 8

\* C7: in deadline mode the total bytes moved is
\* floor(counter / N) * arrays_touched * array_length * element_size, with
\* arrays_touched = 2 for copy/scale and 3 for add/triad: the counter is divided by
\* the thread count as in fixed mode.
C7_BytesFromCounterPerThread ==
    (runtime_mode /\ Aggregated) =>
      total_bytes_moved =
         (total_iterations_completed \div num_threads)
            * ArraysTouched(operation) * array_size * 8

\* a two-thread deadline run aggregated with an odd counter
C7_Witness ==
    /\ runtime_mode /\ mainpc = "report" /\ num_threads = 2
    /\ total_iterations_completed = 3
    /\ total_bytes_moved = ArraysTouched(operation) * array_size * 8

\* C8: the elapsed time is checked to be > 0 before the division: a run whose
\* maximum completion time is exactly zero ends as a measurement error, never with
\* a bandwidth obtained by dividing by zero, never with success.
C8_ZeroElapsedIsError ==
    (Aggregated /\ max_elapsed_time = 0) =>
      /\ bandwidth \notin {"inf", "nan"}
      /\ "EXIT_SUCCESS" \notin exit_status

BadConfig ==
    \/ num_threads < 1 \/ array_size < 1 \/ num_iterations < 1
    \/ runtime_mode /\ runtime_seconds <= 0

\* C9: with thread count < 1, array length < 1 or iteration count < 1 (or, in
\* deadline mode, a duration <= 0), main gets no further than its checks: no array
\* is ever allocated, no descriptor written, no thread created, and the only exit
\* is with failure status.
C9_BadConfigRejected ==
    (mainpc # "off" /\ BadConfig) =>
      /\ mainpc \in {"getopt", "check", "exit"}
      /\ ~allocated /\ a = << >> /\ b = << >> /\ c = << >>
      /\ thread_completion_times = << >>
      /\ \A w \in Threads : pc[w] = "none" /\ thread_data[w] = NoData
      /\ total_iterations_completed = 0
      /\ mainpc = "exit" => exit_status = {"EXIT_FAILURE"}

\* an iteration count of 0, all else valid: the process has ended with failure
C9_Witness ==
    /\ num_iterations = 0 /\ num_threads >= 1 /\ array_size >= 1
    /\ RuntimeOptionOk(runtime_mode, runtime_seconds)
    /\ proc = "terminated" /\ exit_status = {"EXIT_FAILURE"} /\ ~allocated

\* C10: once a worker's validation has found a mismatch, the process is exiting or
\* gone, main is never at aggregating or reporting and has no result, and the exit
\* status is never success: failure is the status the process ends with.
C10_ValidationFailureIsFatal ==
    validation_failed # {} =>
      /\ proc \in {"exiting", "terminated"}
      /\ exit_status = {"EXIT_FAILURE"}
      /\ mainpc \in {"create", "join", "exit"}
      /\ bandwidth = "none"
      /\ \A w \in validation_failed : pc[w] = "exited"

\* a worker's validation failed while another worker was still running, and the
\* process has ended with failure
C10_Witness ==
    /\ validation_failed # {} /\ proc = "terminated"
    /\ exit_status = {"EXIT_FAILURE"} /\ mainpc = "join"
    /\ \E w \in WorkerIds : pc[w] \notin {"exited", "returned", "none"}

\* the Completion Time Table slot of worker w has been written
SlotWritten(w) == thread_completion_times[w] # Uninit

\* C11: once main has its figures (all workers joined), every worker's table entry
\* is written and the elapsed time used for the bandwidth is the largest of the
\* entries: it is one of them and none is greater.
C11_ElapsedIsSlowestWorker ==
    Aggregated =>
      /\ \A w \in WorkerIds : SlotWritten(w)
      /\ \E w \in WorkerIds : thread_completion_times[w] = {max_elapsed_time}
      /\ \A w \in WorkerIds : \A v \in thread_completion_times[w] : v <= max_elapsed_time

\* two workers, the first the slower, and main has taken the first's time
C11_Witness ==
    /\ Aggregated /\ num_threads = 2
    /\ thread_completion_times[0] = {max_elapsed_time}
    /\ \A v \in thread_completion_times[1] : v < max_elapsed_time

\* the indices of worker w's own range
OwnRange(w) ==
    IF thread_data[w] = NoData THEN {}
    ELSE {x \in 0 .. (array_size - 1) :
             thread_data[w].start_index <= x /\ x < thread_data[w].end_index}

\* the kernel calls worker w's loop is to make in fixed mode
Assigned(w) == thread_data[w].num_iterations

\* C12: a worker whose pthread_setaffinity_np failed goes on as any other: it never
\* ends the process for that (a worker's exit is only ever validate's), it reaches
\* the record step only with its loop run in full (its assigned calls in fixed
\* mode; in deadline mode at least one call and a reading at or past the duration),
\* it has its table entry written from then on, and it returns only after validate
\* has read all of its range and found no mismatch.
C12_AffinityFailureNotFatal ==
    \A w \in WorkerIds : affinity[w] = "failed" =>
      /\ pc[w] \notin {"none", "created"}
      /\ pc[w] = "exited" => w \in validation_failed
      /\ pc[w] \in {"record", "validate", "returned", "exited"} =>
            IF runtime_mode THEN iter[w] >= 1 /\ elapsed[w] >= runtime_seconds
            ELSE iter[w] = Assigned(w)
      /\ pc[w] \in {"validate", "returned", "exited"} => SlotWritten(w)
      /\ pc[w] = "returned" => w \notin validation_failed /\ OwnRange(w) \subseteq touched[w]

\* a worker's binding failed, it ran, recorded, validated and returned, and the run
\* ended with success
C12_Witness ==
    /\ proc = "terminated" /\ exit_status = {"EXIT_SUCCESS"}
    /\ \E w \in WorkerIds :
          /\ affinity[w] = "failed" /\ pc[w] = "returned"
          /\ iter[w] >= 1 /\ SlotWritten(w) /\ touched[w] # {}

\* C13: whatever the interleaving, the indices a worker's kernel calls and its
\* validation have accessed all lie in its own [start_index, end_index), and no
\* index has been accessed by two workers.
C13_RangesNeverShared ==
    \A w \in Threads :
      /\ touched[w] \subseteq OwnRange(w)
      /\ \A v \in Threads : v # w => touched[w] \cap touched[v] = {}

\* two workers have both accessed the arrays, one has returned from its validation
\* and the other is still in its loop
C13_Witness ==
    \E w, v \in WorkerIds :
      /\ w # v /\ touched[w] # {} /\ touched[v] # {}
      /\ pc[w] = "returned" /\ pc[v] \in {"kernel", "gettime", "count"}

RECURSIVE SumUpTo(_, _)
SumUpTo(f, k) == IF k < 0 THEN 0 ELSE f[k] + SumUpTo(f, k - 1)

\* the kernel calls made so far by all workers
KernelCalls == SumUpTo(iter, MaxThreads - 1)

\* the kernel calls whose increment of the counter is still to come
PendingCounts == Cardinality({w \in WorkerIds : pc[w] \in {"gettime", "count"}})

\* C14: in deadline mode no increment of the shared counter is lost under any
\* interleaving: at every moment the counter is the number of kernel calls made
\* less those whose pass has not reached its increment yet; main is at its read of
\* the counter only when every worker has returned, and the counter then equals
\* the kernel calls made by all workers.
C14_NoLostIncrement ==
    runtime_mode =>
      /\ total_iterations_completed = KernelCalls - PendingCounts
      /\ (mainpc \in {"aggregate", "report"} \/ Aggregated) =>
            /\ AllReturned
            /\ total_iterations_completed = KernelCalls

\* a deadline run of two workers, each with its kernel calls counted, and main has
\* the figures
C14_Witness ==
    /\ runtime_mode /\ Aggregated /\ num_threads = 2
    /\ iter[0] >= 1 /\ iter[1] >= 1
    /\ total_iterations_completed = iter[0] + iter[1]

\* C15: a table slot is stored to by its owner only and at most once, exactly once
\* from the owner's record step on; main is at its reads of the table only when
\* every worker has returned, and every slot it reads has been written.
C15_TableSlotsWrittenOnce ==
    /\ \A s \in Threads : table_writes[s].by \subseteq {s} /\ table_writes[s].n <= 1
    /\ \A w \in WorkerIds : pc[w] # "none" =>
          /\ table_writes[w].n = 1 <=> pc[w] \in {"validate", "returned", "exited"}
          /\ SlotWritten(w) <=> table_writes[w].n = 1
    /\ (mainpc \in {"aggregate", "report"} \/ Aggregated) =>
          /\ AllReturned
          /\ \A w \in WorkerIds : SlotWritten(w) /\ table_writes[w].by = {w}

\* two workers have each stored their entry, and main has read the table
C15_Witness ==
    /\ Aggregated /\ num_threads = 2
    /\ \A w \in WorkerIds : table_writes[w] = [n |-> 1, by |-> {w}]

\* the steps of a worker, in the order of thread_function
WorkerOrder ==
    {<<"none", "created">>, <<"created", "kernel">>, <<"created", "record">>,
     <<"kernel", "gettime">>, <<"gettime", "count">>, <<"count", "kernel">>,
     <<"count", "record">>, <<"kernel", "record">>, <<"record", "validate">>,
     <<"validate", "returned">>, <<"validate", "exited">>}

\* C16: a worker only moves along Created, (Bound,) Running, Completed, Validated:
\* it is created with its descriptor written in full; the binding is made once,
\* before any kernel call; kernel calls are made only before the completion time
\* is stored; the store is made after the last kernel call and before validation
\* reads anything; the thread returns only from validation; and main's join of a
\* worker returns only when that worker has returned.
C16_WorkerStateOrder ==
    [][ /\ \A w \in Threads :
             /\ pc'[w] # pc[w] => <<pc[w], pc'[w]>> \in WorkerOrder
             /\ pc'[w] = "created" => thread_data'[w] = Descriptor(w)
             /\ affinity'[w] # affinity[w] =>
                   pc[w] = "created" /\ touched[w] = {} /\ pc'[w] # "created"
             /\ iter'[w] > iter[w] =>
                   pc[w] = "kernel" /\ table_writes[w].n = 0 /\ affinity'[w] = affinity[w]
             /\ table_writes'[w] # table_writes[w] =>
                   /\ pc[w] = "record" /\ pc'[w] = "validate"
                   /\ iter'[w] = iter[w] /\ touched'[w] = touched[w]
             /\ (pc[w] = "validate" /\ pc'[w] # "validate") =>
                   table_writes[w].n = 1 /\ iter'[w] = iter[w]
        /\ (mainpc = "join" /\ mi' # mi) => pc[mi] = "returned" /\ pc'[mi] = "returned"
      ]_vars

\* a worker was bound, made a kernel call, stored its time, validated and returned,
\* and main has joined it
C16_Witness ==
    /\ mainpc = "aggregate"
    /\ \E w \in WorkerIds :
          /\ pc[w] = "returned" /\ affinity[w] = "bound"
          /\ iter[w] >= 1 /\ SlotWritten(w) /\ OwnRange(w) \subseteq touched[w]

\* every worker is past its loop
AllPastLoop ==
    \A w \in WorkerIds : pc[w] \in {"record", "validate", "returned", "exited"}

\* C17: in fixed-iteration mode the shared counter stays 0; a worker never makes
\* more kernel calls than its descriptor assigns, is in its loop only with calls
\* left to make, and is at or past its record step only with exactly the assigned
\* number made; once every worker is there, the kernel calls of all workers add up
\* to the configured iteration count.
C17_FixedModeExactCalls ==
    (~runtime_mode /\ allocated) =>
      /\ total_iterations_completed = 0
      /\ \A w \in WorkerIds : pc[w] # "none" =>
            /\ iter[w] <= Assigned(w)
            /\ pc[w] = "kernel" => iter[w] < Assigned(w)
            /\ pc[w] \in {"record", "validate", "returned", "exited"} =>
                  iter[w] = Assigned(w)
      /\ AllPastLoop => KernelCalls = num_iterations

\* a fixed-mode run of two workers and two iterations: each has made its one call,
\* and main has the figures
C17_Witness ==
    /\ ~runtime_mode /\ Aggregated /\ num_threads = 2 /\ num_iterations = 2
    /\ iter[0] = 1 /\ iter[1] = 1 /\ total_iterations_completed = 0

\* C18: in deadline mode a worker is past its loop only with a last clock reading
\* at or above the duration and at least one kernel call made; it is about to make
\* a further call only with a last reading below the duration; and it begins at
\* most one kernel call at or after the deadline.
C18_DeadlineLoopExit ==
    (runtime_mode /\ allocated) =>
      \A w \in WorkerIds : pc[w] # "none" =>
        /\ pc[w] \in {"record", "validate", "returned", "exited"} =>
              elapsed[w] >= runtime_seconds /\ iter[w] >= 1
        /\ (pc[w] = "kernel" /\ iter[w] >= 1) => elapsed[w] < runtime_seconds
        /\ late[w] <= 1

\* a worker read the clock below the duration, began its next kernel call after the
\* deadline, then left the loop and returned
C18_Witness ==
    /\ runtime_mode
    /\ \E w \in WorkerIds : late[w] = 1 /\ iter[w] >= 2 /\ pc[w] = "returned"

\* main is past its join loop, or the process is ending
PastJoins == mainpc \in {"aggregate", "report", "exit"} \/ proc # "running"

\* C19: with every thread that can run scheduled, the clock advancing and an exit
\* once called completed, every run ends: a created worker eventually returns or
\* the process is ending with failure, main once at its joins eventually gets past
\* them, and the process eventually terminates.
C19_EveryRunTerminates ==
    /\ <>(proc = "terminated")
    /\ (mainpc = "join") ~> PastJoins
    /\ \A w \in Threads :
          (pc[w] = "created") ~>
             (pc[w] = "returned" \/ (proc # "running" /\ "EXIT_FAILURE" \in exit_status))

\* a deadline run of two workers in which a worker had to wait for the clock, ended
\* with main past its joins and the process gone with success
C19_Witness ==
    /\ runtime_mode /\ num_threads = 2 /\ AllReturned
    /\ proc = "terminated" /\ exit_status = {"EXIT_SUCCESS"}
    /\ \E w \in WorkerIds : iter[w] >= 2

\* a worker has met a tag outside the four operations, in its loop's switch or in
\* validate's
MetUnknownTag(w) ==
    /\ thread_data[w] # NoData /\ ~KnownOperation(thread_data[w].operation)
    /\ pc[w] \in {"returned", "exited"}

Written(op) ==
    CASE op \in {"OP_COPY", "OP_ADD"} -> "c"
      [] op = "OP_SCALE" -> "b"
      [] op = "OP_TRIAD" -> "a"

\* C21: a kernel is idempotent on its range, for every operation, scalar, range and
\* contents: a call made after a first call leaves A, B and C exactly as they were,
\* so the contents after k >= 1 calls do not depend on k; and a kernel only ever
\* stores to one array, inside the range, which is not one it reads: the other two
\* arrays, and the written one outside the range, keep their first contents.
C21_KernelIdempotent ==
    /\ [](h.kind = "kernel" =>
            \A n \in {"a", "b", "c"} : \A j \in 0 .. (KLen - 1) :
               (n # Written(h.operation) \/ ~InRange(j, h.start, h.end)) =>
                  h.m[n][j] = h.m0[n][j])
    /\ [][(h.kind = "kernel" /\ h.calls >= 1) => h'.m = h.m]_vars

\* triad applied twice to a non-empty range whose A it changed
C21_Witness ==
    /\ h.kind = "kernel" /\ h.calls = 2 /\ h.operation = "OP_TRIAD"
    /\ h.start < h.end /\ h.m.a # h.m0.a
    /\ \A j \in 0 .. (KLen - 1) :
          InRange(j, h.start, h.end) => h.m.a[j] = h.m0.b[j] + h.scalar * h.m0.c[j]

\* the bytes the descriptors' work touches: for each worker its assigned calls times
\* the length of its range, times the arrays of the operation and the element size
RECURSIVE TouchedBytesUpTo(_, _, _)
TouchedBytesUpTo(d, k, arrays) ==
    IF k < 0 THEN 0
    ELSE d[k].num_iterations * (d[k].end_index - d[k].start_index) * arrays * ElementSize
         + TouchedBytesUpTo(d, k - 1, arrays)

TouchedBytes == TouchedBytesUpTo(thread_data, num_threads - 1, NumArraysAccessed(operation))

\* every thread of the run has been created
AllCreated == num_threads >= 1 /\ \A w \in WorkerIds : pc[w] # "none"

\* C22: a fixed-mode run whose threads were all created ends with a reported total
\* of bytes that is at most the bytes its workers' assigned work touches, equal to
\* it when the thread count divides the iteration count, and 0, with kernel calls
\* made, when the iteration count is below the thread count.
C22_ReportedBytesVersusTouched ==
    (~runtime_mode /\ AllCreated /\ proc = "terminated") =>
      /\ Aggregated
      /\ total_bytes_moved <= TouchedBytes
      /\ num_iterations % num_threads = 0 => total_bytes_moved = TouchedBytes
      /\ num_iterations < num_threads => total_bytes_moved = 0 /\ KernelCalls >= 1

\* C22, the part of it that holds of the runs that report: in fixed mode the total
\* main has computed never exceeds the bytes touched and equals them when the
\* thread count divides the iteration count.
C22_ReportedAtMostTouched ==
    (~runtime_mode /\ Aggregated) =>
      /\ total_bytes_moved <= TouchedBytes
      /\ num_iterations % num_threads = 0 => total_bytes_moved = TouchedBytes

\* C22, the case of fewer iterations than threads: no such fixed-mode run gets as
\* far as its figures (the last worker makes no kernel call and its validation ends
\* the process)
C22_FewIterationsNeverReported ==
    (~runtime_mode /\ num_iterations < num_threads) => ~Aggregated

\* C22, the arithmetic alone, for any thread count, length and iteration count and
\* either number of arrays: floor(I/N) * arrays * L * ElementSize is at most the
\* bytes touched by the descriptors' work, equal to them when N divides I, and 0
\* when I < N
C22_FormulaAtMostTouched ==
    PartDone =>
      \A arrays \in {2, 3} :
        LET d       == [k \in 0 .. (h.N - 1) |-> h.data[k + 1]]
            touch   == TouchedBytesUpTo(d, h.N - 1, arrays)
            formula == TotalBytesMoved(ActualIterations(FALSE, 0, h.I), h.N, arrays, h.L)
        IN  /\ formula <= touch
            /\ h.I % h.N = 0 => formula = touch
            /\ h.I < h.N => formula = 0

====
